---------------------------- MODULE Spec2Model ----------------------------
(***************************************************************************)
(* Model of the hash-database tools create_othd.py (record sources, schema *)
(* negotiation, database writer) and describe_othd.py (database reader).   *)
(*                                                                         *)
(* Python values are modelled as follows.                                  *)
(*   - text: a sequence of one-character strings;                          *)
(*   - bytes: a sequence of integers 0..255;                               *)
(*   - a collection handed to validate_column_list (a list or a set): the  *)
(*     record [len, elems], which is all the code reads of it (len(),      *)
(*     `in`, iteration over the elements);                                 *)
(*   - the outcome of a call that may raise: [ok |-> TRUE, val |-> v] or   *)
(*     [ok |-> FALSE, val |-> <exception class>].                          *)
(* The SQLite file is modelled by its durable content (disk) and by the    *)
(* connection's working copy (con), with the transaction rules of Python's *)
(* sqlite3 module in its default (legacy) transaction control.             *)
(***************************************************************************)
EXTENDS Integers, Sequences, FiniteSets, TLC

VARIABLES
    src,        \* the record source object handed to the writer, or NoSource
    disk,       \* durable content of the destination path, or NoFile
    con,        \* the writer's connection: working copy and in_transaction
    pc,         \* position of the run (CLI and write_to_output_db)
    pulled,     \* number of items taken from the source's file_infos generator
    err,        \* class of the exception that ended the run, or "none"
    cols_in,    \* a call of the schema negotiator: the column collection given
    cols_out,   \* a call of the schema negotiator: the function and its outcome
    dest0       \* what the destination path held when the run began

vars == <<src, disk, con, pc, pulled, err, cols_in, cols_out, dest0>>

-----------------------------------------------------------------------------
(* Bounds *)

MaxColList == 3     \* longest caller-supplied column list
MaxRecs == 2        \* most raw items (files, lines, rows) a source holds

-----------------------------------------------------------------------------
(* Generic helpers *)

Range(s) == {s[i] : i \in 1..Len(s)}

SeqsUpTo(S, n) == UNION {[1..k -> S] : k \in 0..n}

Ok(v) == [ok |-> TRUE, val |-> v]
Raise(e) == [ok |-> FALSE, val |-> e]

PyList(l) == [len |-> Len(l), elems |-> Range(l)]
PySet(S) == [len |-> Cardinality(S), elems |-> S]

-----------------------------------------------------------------------------
(* BaseInputDatabase: the schema negotiator *)

POSSIBLE_COLUMNS == {"size", "sha1", "md5"}
OPTIMAL_COLUMN_ORDER == <<"size", "sha1", "md5">>

\* Column names a caller can write down: the three legal ones and one other.
ColumnNames == POSSIBLE_COLUMNS \cup {"crc32"}

\* Faulty variant: the size-only test is missing.
validate_column_list_nosize(columns) ==
    IF columns.len = 0 THEN Raise("ValueError")
    ELSE IF \E a \in columns.elems : a \notin POSSIBLE_COLUMNS
         THEN Raise("ValueError")
    ELSE Ok("None")

validate_column_list(columns) ==
    IF columns.len = 0 THEN Raise("ValueError")
    ELSE IF columns.len = 1 /\ "size" \in columns.elems THEN Raise("ValueError")
    ELSE IF \E a \in columns.elems : a \notin POSSIBLE_COLUMNS
         THEN Raise("ValueError")
    ELSE Ok("None")

\* [a for a in order if a in subset]
FilterOrder(order, elems) == SelectSeq(order, LAMBDA a : a \in elems)

\* Faulty variant: the columns are filtered in the wrong order.
ordered_column_subset_unordered(subset) ==
    IF ~validate_column_list(subset).ok THEN validate_column_list(subset)
    ELSE Ok(FilterOrder(<<"md5", "sha1", "size">>, subset.elems))

\* `subset` is the collection to order; the caller has already replaced None
\* by the source's available_columns.
ordered_column_subset(subset) ==
    IF ~validate_column_list(subset).ok THEN validate_column_list(subset)
    ELSE Ok(FilterOrder(OPTIMAL_COLUMN_ORDER, subset.elems))

ColumnType(i) ==
    CASE i = "size" -> "INT"
      [] i = "md5" -> "BLOB"
      [] i = "sha1" -> "BLOB"
      [] OTHER -> "?"

columns_with_type(columns_override) ==
    LET columns == ordered_column_subset(columns_override) IN
    IF ~columns.ok THEN columns
    ELSE IF ~validate_column_list(PyList(columns.val)).ok
         THEN validate_column_list(PyList(columns.val))
    ELSE IF \E i \in Range(columns.val) : ColumnType(i) = "?"
         THEN Raise("ValueError")
    ELSE Ok([k \in 1..Len(columns.val) |->
                [name |-> columns.val[k], type |-> ColumnType(columns.val[k])]])

-----------------------------------------------------------------------------
(* Text and bytes *)

Rep(c, n) == [i \in 1..n |-> c]

NL == "\n"
Whitespace == {" ", NL, "\t"}

HexDigits == <<"0", "1", "2", "3", "4", "5", "6", "7", "8", "9",
               "a", "b", "c", "d", "e", "f">>
HexUpper == <<"0", "1", "2", "3", "4", "5", "6", "7", "8", "9",
              "A", "B", "C", "D", "E", "F">>
IsHex(c) == c \in Range(HexDigits) \cup Range(HexUpper)
HexVal(c) ==
    IF c \in Range(HexDigits)
    THEN (CHOOSE i \in 1..16 : HexDigits[i] = c) - 1
    ELSE (CHOOSE i \in 1..16 : HexUpper[i] = c) - 1

DecDigits == SubSeq(HexDigits, 1, 10)
IsDigit(c) == c \in Range(DecDigits)

\* str.strip()
RECURSIVE lstrip(_)
lstrip(s) ==
    IF s # <<>> /\ Head(s) \in Whitespace THEN lstrip(Tail(s)) ELSE s

RECURSIVE rstrip(_)
rstrip(s) ==
    IF s # <<>> /\ s[Len(s)] \in Whitespace
    THEN rstrip(SubSeq(s, 1, Len(s) - 1)) ELSE s

strip(s) == rstrip(lstrip(s))

\* str.strip('"')
RECURSIVE lstrip_quote(_)
lstrip_quote(s) ==
    IF s # <<>> /\ Head(s) = "\"" THEN lstrip_quote(Tail(s)) ELSE s

RECURSIVE rstrip_quote(_)
rstrip_quote(s) ==
    IF s # <<>> /\ s[Len(s)] = "\""
    THEN rstrip_quote(SubSeq(s, 1, Len(s) - 1)) ELSE s

strip_quote(s) == rstrip_quote(lstrip_quote(s))

\* The Python value None, where text is expected.
None == <<"None">>

\* bytes.fromhex(s): pairs of hex digits, ASCII whitespace allowed between
\* pairs; ValueError otherwise, TypeError for None.
RECURSIVE fromhex_text(_)
fromhex_text(s) ==
    IF s = <<>> THEN Ok(<<>>)
    ELSE IF Head(s) \in Whitespace THEN fromhex_text(Tail(s))
    ELSE IF Len(s) >= 2 /\ IsHex(s[1]) /\ IsHex(s[2])
         THEN LET r == fromhex_text(SubSeq(s, 3, Len(s))) IN
              IF r.ok THEN Ok(<<16 * HexVal(s[1]) + HexVal(s[2])>> \o r.val)
              ELSE r
    ELSE Raise("ValueError")

fromhex(s) == IF s = None THEN Raise("TypeError") ELSE fromhex_text(s)

\* int(s) for text: surrounding whitespace and one sign allowed, then one or
\* more decimal digits (digit-group underscores are outside the inputs used).
RECURSIVE DigitsVal(_)
DigitsVal(s) ==
    IF s = <<>> THEN 0
    ELSE 10 * DigitsVal(SubSeq(s, 1, Len(s) - 1)) + HexVal(s[Len(s)])

int_text(s) ==
    LET t == strip(s)
        signed == t # <<>> /\ Head(t) \in {"+", "-"}
        d == IF signed THEN Tail(t) ELSE t
    IN  IF d = <<>> \/ \E i \in 1..Len(d) : ~IsDigit(d[i])
        THEN Raise("ValueError")
        ELSE Ok(IF signed /\ Head(t) = "-" THEN 0 - DigitsVal(d) ELSE DigitsVal(d))

int(s) == IF s = None THEN Raise("TypeError") ELSE int_text(s)

-----------------------------------------------------------------------------
(* Values bound to an SQL statement and stored in a row: every value has    *)
(* the same shape, t names its SQLite storage class.                        *)

IntVal(n) == [t |-> "integer", i |-> n, b |-> <<>>]
BlobVal(bs) == [t |-> "blob", i |-> 0, b |-> bs]
TextVal(s) == [t |-> "text", i |-> 0, b |-> s]
NullVal == [t |-> "null", i |-> 0, b |-> <<>>]

\* get_column outcomes as bound values: an int binds as integer, bytes as blob.
AsInt(r) == IF r.ok THEN Ok(IntVal(r.val)) ELSE r
AsBlob(r) == IF r.ok THEN Ok(BlobVal(r.val)) ELSE r

-----------------------------------------------------------------------------
(* Record sources.  A source object is a record with the fields of         *)
(* BaseInputDatabase (name, description, uuid), its kind, and the fields   *)
(* its class adds.  Three operators dispatch on the kind:                  *)
(*   available_columns(db)   the set the property returns;                 *)
(*   file_infos(db)          the items the generator produces, in order:   *)
(*                           Ok(info), or Raise(e) where the generator     *)
(*                           itself raises (nothing follows such an item); *)
(*   get_column(db, info, c) the outcome of info.get_column(c), as a value *)
(*                           to bind.                                      *)
(***************************************************************************)

NoSource == [kind |-> "none"]

\* uuid.uuid4(): a 128-bit integer; two of them stand for the random draw.
UUIDs == {1, 258}

Md5DigestLen == 16
Sha1DigestLen == 20
UuidLen == 16

RECURSIVE to_bytes(_, _)
\* int.to_bytes(n, 'big')
to_bytes(v, n) ==
    IF n = 0 THEN <<>> ELSE to_bytes(v \div 256, n - 1) \o <<v % 256>>

RECURSIVE from_bytes(_)
\* int.from_bytes(bs, 'big')
from_bytes(bs) ==
    IF bs = <<>> THEN 0
    ELSE 256 * from_bytes(SubSeq(bs, 1, Len(bs) - 1)) + bs[Len(bs)]

\* UUID.bytes
uuid_bytes(u) == to_bytes(u, UuidLen)

\* uuid.UUID(bytes=b)
UUID_from_bytes(b) ==
    IF Len(b) # UuidLen THEN Raise("ValueError") ELSE Ok(from_bytes(b))

\* BaseInputDatabase.__init__
BaseInit(u) == [name |-> <<>>, description |-> <<>>, uuid |-> u]

---- (* FolderAsInputDatabase *)

\* A file under the walked folder: its size, its content (one byte value
\* stands for it) and whether it is still there when the record is read.
FolderFiles ==
    {[size |-> 1, content |-> 1, present |-> TRUE],
     [size |-> 1, content |-> 2, present |-> TRUE],
     [size |-> 2, content |-> 3, present |-> FALSE]}

FolderDefaultColumns == <<"size", "md5", "sha1">>

\* hashlib.md5(data).digest(), hashlib.sha1(data).digest(): uninterpreted,
\* of the digest's length, distinct for distinct contents.
md5_digest(content) == Rep(content, Md5DigestLen)
sha1_digest(content) == Rep(100 + content, Sha1DigestLen)

FolderAsInputDatabase(folder, columns, u) ==
    IF ~validate_column_list(PyList(columns)).ok
    THEN validate_column_list(PyList(columns))
    ELSE Ok([kind |-> "folder", base |-> BaseInit(u),
             folder |-> folder, columns |-> Range(columns)])

Folder_get_column(file, column_name) ==
    IF column_name \in {"size", "md5", "sha1"} /\ ~file.present
    THEN Raise("OSError")
    ELSE CASE column_name = "size" -> Ok(IntVal(file.size))
           [] column_name = "md5" -> Ok(BlobVal(md5_digest(file.content)))
           [] column_name = "sha1" -> Ok(BlobVal(sha1_digest(file.content)))
           [] OTHER -> Raise("ValueError")

Folder_file_infos(db) == [k \in 1..Len(db.folder) |-> Ok(db.folder[k])]

---- (* HashListAsInputDatabase *)

Md5HexLen == 32
Sha1HexLen == 40

HashListAsInputDatabase(lines, column, u) ==
    Ok([kind |-> "hashlist", base |-> BaseInit(u),
        lines |-> lines, column |-> column])

\* FileInfo.__init__
HashList_FileInfo(column, line) == [line |-> strip(line), column |-> column]

HashList_get_column(info, column_name) ==
    IF column_name # info.column THEN Raise("AssertionError")
    ELSE IF column_name = "size" THEN AsInt(int(info.line))
    ELSE IF column_name = "md5" /\ Len(info.line) # Md5HexLen
         THEN Raise("ValueError")
    ELSE IF column_name = "sha1" /\ Len(info.line) # Sha1HexLen
         THEN Raise("ValueError")
    ELSE AsBlob(fromhex(info.line))

\* readline() until it returns the empty string
RECURSIVE HashList_items(_, _)
HashList_items(column, lines) ==
    IF lines = <<>> \/ Len(Head(lines)) = 0 THEN <<>>
    ELSE <<Ok(HashList_FileInfo(column, Head(lines)))>>
         \o HashList_items(column, Tail(lines))

HashList_file_infos(db) == HashList_items(db.column, db.lines)

---- (* NsrlRdsInputDatabase *)

\* Sample hex texts: well-formed digests of both lengths, a text one
\* character short, and a text of the md5 length two of whose characters
\* are spaces between byte pairs.
HexA32 == Rep("a", Md5HexLen)
HexB32 == Rep("b", Md5HexLen)
HexA40 == Rep("a", Sha1HexLen)
HexB40 == Rep("b", Sha1HexLen)
HexA31 == Rep("a", Md5HexLen - 1)
HexSp32 == <<"a", "a", " ", " ">> \o Rep("a", Md5HexLen - 4)

\* Rows of the reference database's FILE table, as sqlite3 returns them.
RdsRows ==
    {[size |-> IntVal(1), sha1 |-> HexA40, md5 |-> HexA32],
     [size |-> IntVal(2), sha1 |-> HexB40, md5 |-> HexB32],
     [size |-> IntVal(1), sha1 |-> HexA40, md5 |-> HexA31]}

\* The first row of the VERSION table, when there is one.
RdsVersionRow == [release_date |-> <<"2", "5">>, description |-> <<"R", "D", "S">>]

BuiltFromText(fetched) ==
    <<"B", "u", "i", "l", "t", " ", "f", "r", "o", "m", " ">>
    \o fetched.description
    \o <<" ", "r", "e", "l", "e", "a", "s", "e", "d", " ", "o", "n", " ">>
    \o fetched.release_date

\* set_description_from_db: `version` is the list of VERSION rows
set_description_from_db(base, version) ==
    IF version # <<>>
    THEN [base EXCEPT !.description = BuiltFromText(version[1])]
    ELSE base

NsrlRdsInputDatabase(exists, version, file_rows, u) ==
    IF ~exists THEN Raise("ValueError")
    ELSE Ok([kind |-> "rds", base |-> set_description_from_db(BaseInit(u), version),
             file_rows |-> file_rows])

Rds_get_column(line, column_name) ==
    CASE column_name = "size" -> Ok(line.size)
      [] column_name = "sha1" -> AsBlob(fromhex(line.sha1))
      [] column_name = "md5" -> AsBlob(fromhex(line.md5))
      [] OTHER -> Raise("ValueError")

\* SELECT DISTINCT: each distinct row once, at its first occurrence
RECURSIVE Distinct(_)
Distinct(rows) ==
    IF rows = <<>> THEN <<>>
    ELSE LET front == Distinct(SubSeq(rows, 1, Len(rows) - 1))
             last == rows[Len(rows)]
         IN  IF last \in Range(front) THEN front ELSE Append(front, last)

Rds_file_infos(db) ==
    LET lines == Distinct(db.file_rows) IN
    [k \in 1..Len(lines) |-> Ok(lines[k])]

---- (* NsrlCaidInputDatabase *)

\* str.split(sep) for a one-character separator
RECURSIVE Split(_, _)
Split(s, sep) ==
    LET at == {j \in 1..Len(s) : s[j] = sep} IN
    IF at = {} THEN <<s>>
    ELSE LET i == CHOOSE j \in at : \A k \in at : j <= k
         IN  <<SubSeq(s, 1, i - 1)>> \o Split(SubSeq(s, i + 1, Len(s)), sep)

Q == "\""
Quoted(t) == <<Q>> \o t \o <<Q>>
KeyMD5 == Quoted(<<"M", "D", "5">>)
KeySHA1 == Quoted(<<"S", "H", "A", "1">>)
KeyMediaSize == Quoted(<<"M", "e", "d", "i", "a", "S", "i", "z", "e">>)
KeyCategory == Quoted(<<"C", "a", "t", "e", "g", "o", "r", "y">>)

DATA_LINE_HEADER == Rep(" ", 6) \o <<"]", ",">>

\* FileInfo.__init__: the dict as the list of [key, value, ...] parts, a
\* later part overriding an earlier one with the same key
Caid_FileInfo(line) ==
    LET fields == Split(line, ",")
        parts == [k \in 1..Len(fields) |-> Split(fields[k], ":")]
    IN  IF \E k \in 1..Len(parts) : Len(parts[k]) < 2 THEN Raise("IndexError")
        ELSE Ok(parts)

\* self._dict[key]
DictGet(dict, key) ==
    IF \A k \in 1..Len(dict) : dict[k][1] # key THEN Raise("KeyError")
    ELSE LET k == CHOOSE j \in 1..Len(dict) :
                      dict[j][1] = key /\ \A m \in (j + 1)..Len(dict) : dict[m][1] # key
         IN  Ok(dict[k][2])

Caid_category(info) ==
    LET v == DictGet(info, KeyCategory) IN
    IF v.ok THEN int(v.val) ELSE v

Caid_get_column(info, column_name) ==
    LET key == CASE column_name = "size" -> KeyMediaSize
                 [] column_name = "sha1" -> KeySHA1
                 [] column_name = "md5" -> KeyMD5
                 [] OTHER -> <<>>
        v == DictGet(info, key)
    IN  IF column_name \notin {"size", "sha1", "md5"} THEN Raise("ValueError")
        ELSE IF ~v.ok THEN v
        ELSE IF column_name = "size" THEN AsInt(int(strip_quote(v.val)))
        ELSE AsBlob(fromhex(strip_quote(v.val)))

\* desired_categories: [none |-> TRUE] for None, else the allow-list
NoCategories == [none |-> TRUE, set |-> {}]
Categories(S) == [none |-> FALSE, set |-> S]

is_category_desired(desired_categories, category_number) ==
    IF desired_categories.none THEN TRUE
    ELSE category_number \in desired_categories.set

NsrlCaidInputDatabase(exists, lines, desired_categories, u) ==
    IF ~exists THEN Raise("ValueError")
    ELSE Ok([kind |-> "caid", base |-> BaseInit(u),
             lines |-> lines, desired_categories |-> desired_categories])

RECURSIVE Caid_items(_, _)
Caid_items(desired_categories, lines) ==
    IF lines = <<>> \/ Head(lines) = <<>> THEN <<>>
    ELSE LET line == Head(lines)
             rest == Caid_items(desired_categories, Tail(lines))
             hl == Len(DATA_LINE_HEADER)
         IN  IF Len(line) < hl \/ SubSeq(line, 1, hl) # DATA_LINE_HEADER THEN rest
             ELSE LET meat == SubSeq(line, hl + 1, Len(line) - 1)
                      info == Caid_FileInfo(meat)
                      category == Caid_category(info.val)
                  IN  IF ~info.ok THEN <<info>>
                      ELSE IF ~category.ok THEN <<category>>
                      ELSE IF is_category_desired(desired_categories, category.val)
                           THEN <<info>> \o rest
                      ELSE rest

Caid_file_infos(db) == Caid_items(db.desired_categories, db.lines)

CaidLine(md5, sha1, size, category) ==
    DATA_LINE_HEADER
    \o KeyMD5 \o <<":">> \o Quoted(md5) \o <<",">>
    \o KeySHA1 \o <<":">> \o Quoted(sha1) \o <<",">>
    \o KeyMediaSize \o <<":">> \o Quoted(size) \o <<",">>
    \o KeyCategory \o <<":">> \o category \o <<NL>>

CaidLines ==
    {CaidLine(HexA32, HexA40, <<"1">>, <<"1">>),
     CaidLine(HexB32, HexB40, <<"2">>, <<"2">>),
     CaidLine(HexA31, HexA40, <<"1">>, <<"1">>),
     DATA_LINE_HEADER \o KeyMD5 \o <<":">> \o Quoted(HexA32) \o <<NL>>,
     <<"{", NL>>}

---- (* CsvInputDatabase *)

DirectoryText == <<"D", "i", "r", "e", "c", "t", "o", "r", "y">>
FileText == <<"F", "i", "l", "e">>

\* A row as csv.DictReader returns it: each named field is a text, None
\* where the row is too short to reach the field, or Absent where the file's
\* header line does not name the field.
Absent == <<"Absent">>

CsvRow(type, size, sha1, md5) ==
    [Type |-> type, Filesize |-> size, SHA1Hash |-> sha1, MD5Hash |-> md5]

CsvRows ==
    {CsvRow(FileText, <<"1">>, HexA40, HexA32),
     CsvRow(DirectoryText, <<>>, <<>>, <<>>),
     CsvRow(DirectoryText, <<"1">>, <<>>, <<>>),
     CsvRow(FileText, <<>>, <<>>, HexB32),
     CsvRow(FileText, <<"2">>, HexB40, None),
     CsvRow(Absent, Absent, HexA40, HexA32)}

\* line_dict.get(key, ''), given the row's entry for the key
DictGetOrEmpty(v) == IF v = Absent THEN <<>> ELSE v

\* Faulty variant: an empty field is kept as the empty text.
OrNone_keeping(v) == v

\* x or None
OrNone(v) == IF v = <<>> \/ v = None THEN None ELSE v

\* FileInfo.__init__
Csv_FileInfo(line_dict) ==
    [valid |-> DictGetOrEmpty(line_dict.Type) # DirectoryText,
     size |-> OrNone(DictGetOrEmpty(line_dict.Filesize)),
     sha1 |-> OrNone(DictGetOrEmpty(line_dict.SHA1Hash)),
     md5 |-> OrNone(DictGetOrEmpty(line_dict.MD5Hash))]

\* `if self.size:` for a field: None and the empty text are false
NonEmpty(v) == v # None /\ v # <<>>

\* FileInfo.columns
Csv_columns(info) ==
    {c \in {"size"} : NonEmpty(info.size)}
    \cup {c \in {"sha1"} : NonEmpty(info.sha1)}
    \cup {c \in {"md5"} : NonEmpty(info.md5)}

Csv_get_column(info, column_name) ==
    CASE column_name = "size" -> AsInt(int(info.size))
      [] column_name = "sha1" -> AsBlob(fromhex(info.sha1))
      [] column_name = "md5" -> AsBlob(fromhex(info.md5))
      [] OTHER -> Raise("ValueError")

\* the columns of the first valid row, the empty set when there is none
RECURSIVE Csv_first_columns(_)
Csv_first_columns(rows) ==
    IF rows = <<>> THEN {}
    ELSE IF Csv_FileInfo(Head(rows)).valid THEN Csv_columns(Csv_FileInfo(Head(rows)))
    ELSE Csv_first_columns(Tail(rows))

CsvInputDatabase(rows, u) ==
    IF Cardinality(Csv_first_columns(rows)) = 0 THEN Raise("ValueError")
    ELSE Ok([kind |-> "csv", base |-> BaseInit(u),
             rows |-> rows, cols |-> Csv_first_columns(rows)])

\* Faulty variant: rows are yielded whether valid or not.
Csv_file_infos_all(db) ==
    [k \in 1..Len(db.rows) |-> Ok(Csv_FileInfo(db.rows[k]))]

\* for row_dict in csv_reader: the valid rows' records, in input order
Csv_file_infos(db) ==
    LET infos == [k \in 1..Len(db.rows) |-> Csv_FileInfo(db.rows[k])]
        kept == SelectSeq(infos, LAMBDA ty : ty.valid)
    IN  [k \in 1..Len(kept) |-> Ok(kept[k])]

---- (* Dispatch on the source's class *)

available_columns(db) ==
    CASE db.kind = "folder" -> db.columns
      [] db.kind = "hashlist" -> {db.column}
      [] db.kind = "rds" -> {"size", "md5", "sha1"}
      [] db.kind = "caid" -> {"size", "md5", "sha1"}
      [] db.kind = "csv" -> db.cols

file_infos(db) ==
    CASE db.kind = "folder" -> Folder_file_infos(db)
      [] db.kind = "hashlist" -> HashList_file_infos(db)
      [] db.kind = "rds" -> Rds_file_infos(db)
      [] db.kind = "caid" -> Caid_file_infos(db)
      [] db.kind = "csv" -> Csv_file_infos(db)

get_column(db, info, column_name) ==
    CASE db.kind = "folder" -> Folder_get_column(info, column_name)
      [] db.kind = "hashlist" -> HashList_get_column(info, column_name)
      [] db.kind = "rds" -> Rds_get_column(info, column_name)
      [] db.kind = "caid" -> Caid_get_column(info, column_name)
      [] db.kind = "csv" -> Csv_get_column(info, column_name)

-----------------------------------------------------------------------------
(* The SQLite database file and the sqlite3 connection *)

APPLICATION_ID == 1330923588    \* 0x4f544844
DB_VERSION == 1

NoTable == [exists |-> FALSE, columns |-> <<>>, rows |-> <<>>]

\* A zero-length file read as a database.
EmptyDb ==
    [application_id |-> 0, user_version |-> 0,
     header |-> NoTable, files |-> NoTable,
     indexes |-> {}, others |-> {}]

NoFile == [exists |-> FALSE, db |-> EmptyDb]
File(db) == [exists |-> TRUE, db |-> db]

NoCon == [open |-> FALSE, db |-> EmptyDb, in_transaction |-> FALSE]

\* sqlite3.connect(path): opens the file, creating it when it is missing
connect(d) ==
    [con |-> [open |-> TRUE, db |-> d.db, in_transaction |-> FALSE],
     disk |-> File(d.db)]

\* cursor.execute of a statement that is not INSERT/UPDATE/DELETE/REPLACE
\* (PRAGMA, CREATE TABLE, CREATE INDEX): sqlite3 opens no transaction for it,
\* so outside a transaction SQLite commits it at once; inside one it joins it.
execute_other(c, d, newdb) ==
    [con |-> [c EXCEPT !.db = newdb],
     disk |-> IF c.in_transaction THEN d ELSE [d EXCEPT !.db = newdb]]

\* cursor.execute of an INSERT: sqlite3 first opens a transaction when none
\* is open; the row stays in the connection's working copy until commit.
execute_insert(c, d, newdb) ==
    [con |-> [c EXCEPT !.db = newdb, !.in_transaction = TRUE], disk |-> d]

\* con.commit()
commit(c, d) ==
    [con |-> [c EXCEPT !.in_transaction = FALSE], disk |-> [d EXCEPT !.db = c.db]]

\* Typed column declarations, as CREATE TABLE files (...) receives them
TableOf(decls) == [exists |-> TRUE, columns |-> decls, rows |-> <<>>]

HeaderColumns ==
    <<[name |-> "name", type |-> "TEXT"],
      [name |-> "description", type |-> "TEXT"],
      [name |-> "uuid", type |-> "BLOB"]>>

\* Column affinity applied to a bound value on INSERT: INT turns a text that
\* reads as an integer into an integer; BLOB and TEXT keep text and blobs.
Affinity(type, v) ==
    IF type = "INT" /\ v.t = "text" /\ int_text(v.b).ok /\ strip(v.b) = v.b
    THEN IntVal(int_text(v.b).val)
    ELSE v

\* Faulty variant: the new row is put before the rows already there.
insert_files_reversed(db, values) ==
    LET row == [k \in 1..Len(values) |->
                   Affinity(db.files.columns[k].type, values[k])]
    IN  [db EXCEPT !.files.rows = <<row>> \o @]

\* INSERT INTO files (names) VALUES (values): the values, after the
\* affinity of their columns, become the last row of the table.
insert_files(db, values) ==
    LET row == [k \in 1..Len(values) |->
                   Affinity(db.files.columns[k].type, values[k])]
    IN  [db EXCEPT !.files.rows = Append(@, row)]

-----------------------------------------------------------------------------
(* describe_othd.py: the reader, applied to the durable content of a file *)

\* Faulty variant: the oldest header row is fetched.
get_header_info_first(db) ==
    IF ~db.header.exists THEN Raise("OperationalError")
    ELSE IF db.header.rows = <<>> THEN Raise("IndexError")
    ELSE Ok(db.header.rows[1])

\* SELECT ... FROM header ORDER BY rowid DESC LIMIT 1, then fetchall()[0]:
\* the rows of a table are kept in rowid order, which for rows inserted
\* without an explicit rowid is the order of insertion.
get_header_info(db) ==
    IF ~db.header.exists THEN Raise("OperationalError")
    ELSE IF db.header.rows = <<>> THEN Raise("IndexError")
    ELSE Ok(db.header.rows[Len(db.header.rows)])

\* PRAGMA table_info(files): no rows when the table is missing
get_files_columns(db) ==
    [k \in 1..Len(db.files.columns) |-> db.files.columns[k].name]

\* PRAGMA index_list(files)
get_files_index_names(db) ==
    {ix.name : ix \in {i \in db.indexes : i.tbl = "files"}}

\* PRAGMA index_info(name)
get_files_index_info(db, index_name) ==
    (CHOOSE ix \in db.indexes : ix.name = index_name).columns

get_files_index_infos(db) ==
    [a \in get_files_index_names(db) |-> get_files_index_info(db, a)]

\* SELECT COUNT(1) from files
get_files_count(db) ==
    IF ~db.files.exists THEN Raise("OperationalError")
    ELSE Ok(Len(db.files.rows))

get_db_application_id(db) == db.application_id

get_db_version(db) == db.user_version

\* A fetched TEXT or NULL value as the Python value sqlite3 returns
FromSql(v) == IF v.t = "null" THEN None ELSE v.b

\* HashDb.__init__ on an existing path
HashDb(d) ==
    LET db == d.db
        header_info == get_header_info(db)
        id == IF header_info.val.uuid.t = "blob"
              THEN UUID_from_bytes(header_info.val.uuid.b)
              ELSE Raise("TypeError")
    IN  IF ~header_info.ok THEN header_info
        ELSE IF ~id.ok THEN id
        ELSE IF ~get_files_count(db).ok THEN get_files_count(db)
        ELSE Ok([name |-> FromSql(header_info.val.name),
                 description |-> FromSql(header_info.val.description),
                 uuid |-> id.val,
                 files_columns |-> get_files_columns(db),
                 files_index_infos |-> get_files_index_infos(db),
                 files_count |-> get_files_count(db).val,
                 application_id |-> get_db_application_id(db),
                 db_version |-> get_db_version(db)])

application_id_is_correct(self) == self.application_id = APPLICATION_ID

db_version_understood_by_this_script(self) == self.db_version = DB_VERSION

index_is_ideal(self, index_id) ==
    LET index == self.files_index_infos[index_id] IN
    IF Len(index) # Len(self.files_columns) THEN FALSE
    ELSE IF "size" \in Range(self.files_columns) THEN index[1] = "size"
    ELSE TRUE

has_ideal_index(self) ==
    \E index_id \in DOMAIN self.files_index_infos : index_is_ideal(self, index_id)

\* `if self.name:` for a fetched text: None and the empty text are false
Truthy(v) == v # None /\ v # <<>>

\* A line of output: the field it reports and the value it shows (a number,
\* or the text printed for it); marked when the report flags the value
\* with !!! or shows <None> in its place.
Field(key, value, marked) == [key |-> key, value |-> value, marked |-> marked]

\* ', '.join(names)
RECURSIVE Join(_)
Join(names) ==
    IF Len(names) = 0 THEN <<>>
    ELSE IF Len(names) = 1 THEN <<names[1]>>
    ELSE <<names[1], ", ">> \o Join(Tail(names))

\* print_detailed_description: the lines it prints, in order.  The lines
\* under "Indexes:" are one per index; the model keeps their number.
print_detailed_description(self) ==
    <<Field("application_id", IntVal(self.application_id),
            ~application_id_is_correct(self)),
      Field("db_version", IntVal(self.db_version),
            ~db_version_understood_by_this_script(self)),
      Field("name", TextVal(IF Truthy(self.name) THEN self.name ELSE <<>>),
            ~Truthy(self.name)),
      Field("description",
            TextVal(IF Truthy(self.description) THEN self.description ELSE <<>>),
            ~Truthy(self.description)),
      Field("uuid", IntVal(self.uuid), FALSE),
      Field("columns", TextVal(Join(self.files_columns)), FALSE),
      Field("has_ideal_index", TextVal(IF has_ideal_index(self) THEN <<"Yes">> ELSE <<"No">>),
            FALSE),
      Field("indexes", IntVal(Cardinality(DOMAIN self.files_index_infos)), FALSE),
      Field("files_count", IntVal(self.files_count), FALSE)>>

\* print_json: the members of the object it prints, in order
print_json(self) ==
    <<Field("application_id", IntVal(self.application_id), FALSE),
      Field("db_version", IntVal(self.db_version), FALSE)>>
    \o (IF Truthy(self.name) THEN <<Field("name", TextVal(self.name), FALSE)>> ELSE <<>>)
    \o (IF Truthy(self.description)
        THEN <<Field("description", TextVal(self.description), FALSE)>> ELSE <<>>)
    \o <<Field("uuid", IntVal(self.uuid), FALSE),
         Field("columns",
               TextVal(Join([k \in 1..Len(self.files_columns) |->
                                "\"" \o self.files_columns[k] \o "\""])),
               FALSE)>>

-----------------------------------------------------------------------------
(* create_othd.py: the writer.  Each function takes the source, the         *)
(* connection c and the durable file d, and returns [ok, val, con, disk]:   *)
(* the connection and file as the function leaves them, and the exception   *)
(* class in val when it raises.  io names the execute call of the function  *)
(* at which the storage layer fails (0: none).                              *)

Done(st) == [ok |-> TRUE, val |-> "None", con |-> st.con, disk |-> st.disk]
Fail(e, c, d) == [ok |-> FALSE, val |-> e, con |-> c, disk |-> d]

IsUUID(u) == u \in Nat

\* cur.execute("PRAGMA application_id = 0x4f544844;")
\* cur.execute("PRAGMA user_version = 1;")
stamp_markers(c, d, io) ==
    LET s1 == execute_other(c, d, [c.db EXCEPT !.application_id = APPLICATION_ID])
        s2 == execute_other(s1.con, s1.disk,
                            [s1.con.db EXCEPT !.user_version = DB_VERSION])
    IN  IF io = 1 THEN Fail("OperationalError", c, d)
        ELSE IF io = 2 THEN Fail("OperationalError", s1.con, s1.disk)
        ELSE Done(s2)

\* Faulty variant: name and description are bound in the wrong order.
create_and_fill_header_table_swapped(input_db, c, d, io) ==
    LET name == input_db.base.name
        desc == input_db.base.description
        my_uuid == uuid_bytes(input_db.base.uuid)
        s1 == execute_other(c, d, [c.db EXCEPT !.header = TableOf(HeaderColumns)])
        row == [name |-> TextVal(desc), description |-> TextVal(name),
                uuid |-> BlobVal(my_uuid)]
        s2 == execute_insert(s1.con, s1.disk,
                             [s1.con.db EXCEPT !.header.rows = Append(@, row)])
    IN  IF ~IsUUID(input_db.base.uuid) THEN Fail("ValueError", c, d)
        ELSE IF c.db.header.exists \/ io = 1 THEN Fail("OperationalError", c, d)
        ELSE IF io = 2 THEN Fail("OperationalError", s1.con, s1.disk)
        ELSE Done(s2)

create_and_fill_header_table(input_db, c, d, io) ==
    LET name == input_db.base.name
        desc == input_db.base.description
        my_uuid == uuid_bytes(input_db.base.uuid)
        s1 == execute_other(c, d, [c.db EXCEPT !.header = TableOf(HeaderColumns)])
        row == [name |-> TextVal(name), description |-> TextVal(desc),
                uuid |-> BlobVal(my_uuid)]
        s2 == execute_insert(s1.con, s1.disk,
                             [s1.con.db EXCEPT !.header.rows = Append(@, row)])
    IN  IF ~IsUUID(input_db.base.uuid) THEN Fail("ValueError", c, d)
        ELSE IF c.db.header.exists \/ io = 1 THEN Fail("OperationalError", c, d)
        ELSE IF io = 2 THEN Fail("OperationalError", s1.con, s1.disk)
        ELSE Done(s2)

create_files_table(input_db, c, d, io) ==
    LET columns == columns_with_type(PySet(available_columns(input_db))) IN
    IF ~columns.ok THEN Fail(columns.val, c, d)
    ELSE IF Len(columns.val) = 0 THEN Fail("ValueError", c, d)
    ELSE IF c.db.files.exists \/ io = 1 THEN Fail("OperationalError", c, d)
    ELSE Done(execute_other(c, d, [c.db EXCEPT !.files = TableOf(columns.val)]))

\* [file.get_column(a) for a in column_names]: the values, or the first
\* exception in column order
RECURSIVE row_values(_, _, _)
row_values(input_db, file, column_names) ==
    IF column_names = <<>> THEN Ok(<<>>)
    ELSE LET v == get_column(input_db, file, Head(column_names)) IN
         IF ~v.ok THEN v
         ELSE LET rest == row_values(input_db, file, Tail(column_names)) IN
              IF ~rest.ok THEN rest ELSE Ok(<<v.val>> \o rest.val)

\* Faulty variant: a record whose get_column raises is skipped.
fill_one_skipping(input_db, c, d, item, io) ==
    LET column_names == ordered_column_subset(PySet(available_columns(input_db)))
        values == row_values(input_db, item.val, column_names.val)
    IN  IF ~column_names.ok THEN Fail(column_names.val, c, d)
        ELSE IF ~item.ok THEN Fail(item.val, c, d)
        ELSE IF ~values.ok THEN Done([con |-> c, disk |-> d])
        ELSE IF \E k \in 1..Len(values.val) : values.val[k].t = "null"
             THEN Fail("IntegrityError", c, d)
        ELSE IF io = 1 THEN Fail("OperationalError", c, d)
        ELSE Done(execute_insert(c, d, insert_files(c.db, values.val)))

\* One turn of the loop of fill_files_table, for the item the generator
\* hands over: the get_column calls, then the INSERT, which the NOT NULL
\* constraint of every files column refuses for None.
fill_one(input_db, c, d, item, io) ==
    LET column_names == ordered_column_subset(PySet(available_columns(input_db)))
        values == row_values(input_db, item.val, column_names.val)
    IN  IF ~column_names.ok THEN Fail(column_names.val, c, d)
        ELSE IF ~item.ok THEN Fail(item.val, c, d)
        ELSE IF ~values.ok THEN Fail(values.val, c, d)
        ELSE IF \E k \in 1..Len(values.val) : values.val[k].t = "null"
             THEN Fail("IntegrityError", c, d)
        ELSE IF io = 1 THEN Fail("OperationalError", c, d)
        ELSE Done(execute_insert(c, d, insert_files(c.db, values.val)))

\* Faulty variant: the index keys are in reverse order.
create_indexes_reversed(input_db, c, d, io) ==
    LET column_names == ordered_column_subset(PySet(available_columns(input_db)))
        rev == [k \in 1..Len(column_names.val) |->
                   column_names.val[Len(column_names.val) + 1 - k]]
        ix == [name |-> "all_index", tbl |-> "files", columns |-> rev]
        s1 == execute_other(c, d, [c.db EXCEPT !.indexes = @ \cup {ix}])
    IN  IF ~column_names.ok THEN Fail(column_names.val, c, d)
        ELSE IF (\E i \in c.db.indexes : i.name = "all_index") \/ io = 1
             THEN Fail("OperationalError", c, d)
        ELSE IF io = 2 THEN Fail("OperationalError", s1.con, s1.disk)
        ELSE Done(s1)

\* CREATE INDEX all_index ON files (cols), then PRAGMA optimize, which
\* changes no table or index of the model.
create_indexes(input_db, c, d, io) ==
    LET column_names == ordered_column_subset(PySet(available_columns(input_db)))
        ix == [name |-> "all_index", tbl |-> "files", columns |-> column_names.val]
        s1 == IF Len(column_names.val) > 0
              THEN execute_other(c, d, [c.db EXCEPT !.indexes = @ \cup {ix}])
              ELSE [con |-> c, disk |-> d]
    IN  IF ~column_names.ok THEN Fail(column_names.val, c, d)
        ELSE IF Len(column_names.val) > 0
                /\ ((\E i \in c.db.indexes : i.name = "all_index") \/ io = 1)
             THEN Fail("OperationalError", c, d)
        ELSE IF io = 2 THEN Fail("OperationalError", s1.con, s1.disk)
        ELSE Done(s1)

\* An exception leaves write_to_output_db: the connection is dropped without
\* a commit, and what its transaction held is rolled back.
abort(c, d) == [con |-> NoCon, disk |-> d]

-----------------------------------------------------------------------------
(* The run: the checks of __main__, the construction of the source, the     *)
(* header properties, and write_to_output_db line by line.                  *)

NoErr == [type |-> "none", at |-> "none"]

Names == {<<"n">>}
Descriptions == {<<"d">>}

\* What the destination path may hold before the run.
UnrelatedDb == [EmptyDb EXCEPT !.application_id = 7, !.others = {"notes"}]

CanonicalDb ==
    [application_id |-> APPLICATION_ID, user_version |-> DB_VERSION,
     header |-> [exists |-> TRUE, columns |-> HeaderColumns,
                 rows |-> <<[name |-> TextVal(<<"o">>), description |-> TextVal(<<>>),
                             uuid |-> BlobVal(uuid_bytes(7))]>>],
     files |-> [exists |-> TRUE,
                columns |-> <<[name |-> "md5", type |-> "BLOB"]>>,
                rows |-> <<<<BlobVal(md5_digest(9))>>>>],
     indexes |-> {[name |-> "all_index", tbl |-> "files", columns |-> <<"md5">>]},
     others |-> {}]

Destinations == {NoFile, File(EmptyDb), File(UnrelatedDb), File(CanonicalDb)}

NoCall == [fn |-> "none", out |-> Ok("None")]

Init ==
    /\ src = NoSource
    /\ disk \in Destinations
    /\ con = NoCon
    /\ pc = "start"
    /\ pulled = 0
    /\ err = NoErr
    /\ cols_in = [kind |-> "list", items |-> <<>>]
    /\ cols_out = NoCall
    /\ dest0 = disk

\* __main__: os.path.exists(args.output_file)
MainOutputExists ==
    /\ pc = "start"
    /\ IF disk.exists
       THEN pc' = "exit" /\ err' = [type |-> "exit(-1)", at |-> "main"]
       ELSE pc' = "cli" /\ err' = err
    /\ UNCHANGED <<src, disk, con, pulled, cols_in, cols_out, dest0>>

\* The outcome r of a constructor: the source object, or its exception.
Constructed(r) ==
    /\ IF r.ok
       THEN src' = r.val /\ pc' = "constructed" /\ err' = err
       ELSE src' = src /\ pc' = "failed"
            /\ err' = [type |-> r.val, at |-> "construct"]
    /\ UNCHANGED <<disk, con, pulled, cols_in, cols_out, dest0>>

\* __main__ passes no column list, so the default applies; other callers
\* pass any list.
ConstructFolder ==
    /\ pc \in {"start", "cli"}
    /\ \E folder \in SeqsUpTo(FolderFiles, MaxRecs), u \in UUIDs :
       \E columns \in IF pc = "cli" THEN {FolderDefaultColumns}
                      ELSE SeqsUpTo(ColumnNames, MaxColList) :
          Constructed(FolderAsInputDatabase(folder, columns, u))

HashListLines ==
    {Append(HexA32, NL), Append(HexB32, NL), Append(HexA31, NL),
     Append(HexA40, NL), Append(HexSp32, NL), <<NL>>}

\* __main__ offers md5_list and sha1_list; other callers pass any column.
ConstructHashList ==
    /\ pc \in {"start", "cli"}
    /\ \E lines \in SeqsUpTo(HashListLines, MaxRecs), u \in UUIDs :
       \E column \in IF pc = "cli" THEN {"md5", "sha1"} ELSE ColumnNames :
          Constructed(HashListAsInputDatabase(lines, column, u))

ConstructNsrlRds ==
    /\ pc \in {"start", "cli"}
    /\ \E exists \in BOOLEAN, version \in {<<>>, <<RdsVersionRow>>},
          file_rows \in SeqsUpTo(RdsRows, MaxRecs), u \in UUIDs :
          Constructed(NsrlRdsInputDatabase(exists, version, file_rows, u))

\* __main__ passes no allow-list.
ConstructNsrlCaid ==
    /\ pc \in {"start", "cli"}
    /\ \E exists \in BOOLEAN, lines \in SeqsUpTo(CaidLines, MaxRecs), u \in UUIDs :
       \E desired \in IF pc = "cli" THEN {NoCategories}
                      ELSE {NoCategories, Categories({2})} :
          Constructed(NsrlCaidInputDatabase(exists, lines, desired, u))

ConstructCsv ==
    /\ pc \in {"start", "cli"}
    /\ \E rows \in SeqsUpTo(CsvRows, MaxRecs), u \in UUIDs :
          Constructed(CsvInputDatabase(rows, u))

\* input_db.name = value
SetName ==
    /\ pc = "constructed"
    /\ src.base.name = <<>>
    /\ \E value \in Names : src' = [src EXCEPT !.base.name = value]
    /\ UNCHANGED <<disk, con, pc, pulled, err, cols_in, cols_out, dest0>>

\* input_db.description = value
SetDescription ==
    /\ pc = "constructed"
    /\ src.base.description \notin Descriptions
    /\ \E value \in Descriptions : src' = [src EXCEPT !.base.description = value]
    /\ UNCHANGED <<disk, con, pc, pulled, err, cols_in, cols_out, dest0>>

\* The outcome r of one call made by write_to_output_db: on success the run
\* moves on to `next`; an exception ends it.
Stepped(r, next, at) ==
    IF r.ok
    THEN /\ con' = r.con
         /\ disk' = r.disk
         /\ pc' = next
         /\ err' = err
    ELSE /\ con' = abort(r.con, r.disk).con
         /\ disk' = abort(r.con, r.disk).disk
         /\ pc' = "failed"
         /\ err' = [type |-> r.val, at |-> at]

\* con = sqlite3.connect(output_path); cur = con.cursor()
WriteConnect ==
    /\ pc = "constructed"
    /\ con' = connect(disk).con
    /\ disk' = connect(disk).disk
    /\ pc' = "markers"
    /\ UNCHANGED <<src, pulled, err, cols_in, cols_out, dest0>>

WriteMarkers ==
    /\ pc = "markers"
    /\ \E io \in 0..2 : Stepped(stamp_markers(con, disk, io), "header", "markers")
    /\ UNCHANGED <<src, pulled, cols_in, cols_out, dest0>>

WriteHeader ==
    /\ pc = "header"
    /\ \E io \in 0..2 :
          Stepped(create_and_fill_header_table(src, con, disk, io),
                  "files_table", "header")
    /\ UNCHANGED <<src, pulled, cols_in, cols_out, dest0>>

WriteFilesTable ==
    /\ pc = "files_table"
    /\ \E io \in 0..1 :
          Stepped(create_files_table(src, con, disk, io), "fill", "files_table")
    /\ UNCHANGED <<src, pulled, cols_in, cols_out, dest0>>

\* for file in input_db.file_infos: one more item is taken from the generator
FillRow ==
    /\ pc = "fill"
    /\ LET items == file_infos(src) IN
       /\ pulled < Len(items)
       /\ \E io \in 0..1 :
             Stepped(fill_one(src, con, disk, items[pulled + 1], io), "fill",
                     IF ~items[pulled + 1].ok THEN "file_infos" ELSE "fill")
    /\ pulled' = pulled + 1
    /\ UNCHANGED <<src, cols_in, cols_out, dest0>>

\* the generator is exhausted
FillEnd ==
    /\ pc = "fill"
    /\ pulled = Len(file_infos(src))
    /\ pc' = "indexes"
    /\ UNCHANGED <<src, disk, con, pulled, err, cols_in, cols_out, dest0>>

WriteIndexes ==
    /\ pc = "indexes"
    /\ \E io \in 0..2 :
          Stepped(create_indexes(src, con, disk, io), "commit", "indexes")
    /\ UNCHANGED <<src, pulled, cols_in, cols_out, dest0>>

\* con.commit()
WriteCommit ==
    /\ pc = "commit"
    /\ \E io \in 0..1 :
          Stepped(IF io = 1 THEN Fail("OperationalError", con, disk)
                  ELSE Done(commit(con, disk)),
                  "done", "commit")
    /\ UNCHANGED <<src, pulled, cols_in, cols_out, dest0>>

Next ==
    \/ MainOutputExists
    \/ ConstructHashList
    \/ ConstructFolder
    \/ ConstructNsrlRds
    \/ ConstructNsrlCaid
    \/ ConstructCsv
    \/ SetName
    \/ SetDescription
    \/ WriteConnect
    \/ WriteMarkers
    \/ WriteHeader
    \/ WriteFilesTable
    \/ FillRow
    \/ FillEnd
    \/ WriteIndexes
    \/ WriteCommit

Spec == Init /\ [][Next]_vars

-----------------------------------------------------------------------------
(* The schema negotiator called on its own: validate_column_list and       *)
(* ordered_column_subset applied to a list, or to the set made of it.      *)

Collection(c) ==
    IF c.kind = "list" THEN PyList(c.items) ELSE PySet(Range(c.items))

InitCols ==
    /\ src = NoSource
    /\ disk = NoFile
    /\ con = NoCon
    /\ pc = "start"
    /\ pulled = 0
    /\ err = NoErr
    /\ dest0 = NoFile
    /\ cols_in \in [kind : {"list", "set"}, items : SeqsUpTo(ColumnNames, MaxColList)]
    /\ cols_out = NoCall

CallValidate ==
    /\ cols_out = NoCall
    /\ cols_out' = [fn |-> "validate_column_list",
                    out |-> validate_column_list(Collection(cols_in))]
    /\ UNCHANGED <<src, disk, con, pc, pulled, err, cols_in, dest0>>

CallOrdered ==
    /\ cols_out = NoCall
    /\ cols_out' = [fn |-> "ordered_column_subset",
                    out |-> ordered_column_subset(Collection(cols_in))]
    /\ UNCHANGED <<src, disk, con, pc, pulled, err, cols_in, dest0>>

NextCols ==
    \/ CallValidate
    \/ CallOrdered

SpecCols == InitCols /\ [][NextCols]_vars

-----------------------------------------------------------------------------
(* A source used as a library object: once constructed, a caller asks for   *)
(* its records (file_infos) or asks one of its records for a column         *)
(* (get_column), any column name included.                                  *)

InitRec ==
    /\ src = NoSource
    /\ disk = NoFile
    /\ con = NoCon
    /\ pc = "start"
    /\ pulled = 0
    /\ err = NoErr
    /\ dest0 = NoFile
    /\ cols_in = [kind |-> "list", items |-> <<>>]
    /\ cols_out = NoCall

\* list(input_db.file_infos): the items up to the generator's end or its
\* exception
CallFileInfos ==
    /\ pc = "constructed"
    /\ cols_out.fn = "none"
    /\ cols_out' = [fn |-> "file_infos", out |-> file_infos(src)]
    /\ UNCHANGED <<src, disk, con, pc, pulled, err, cols_in, dest0>>

\* file.get_column(column_name) on record number k of the source
CallGetColumn ==
    /\ pc = "constructed"
    /\ cols_out.fn = "none"
    /\ LET items == file_infos(src) IN
       \E k \in 1..Len(items), column_name \in ColumnNames :
          /\ items[k].ok
          /\ pulled' = k
          /\ cols_in' = [kind |-> "column", items |-> <<column_name>>]
          /\ cols_out' = [fn |-> "get_column",
                          out |-> get_column(src, items[k].val, column_name)]
    /\ UNCHANGED <<src, disk, con, pc, err, dest0>>

NextRec ==
    \/ ConstructHashList
    \/ ConstructFolder
    \/ ConstructNsrlRds
    \/ ConstructNsrlCaid
    \/ ConstructCsv
    \/ CallFileInfos
    \/ CallGetColumn

SpecRec == InitRec /\ [][NextRec]_vars

-----------------------------------------------------------------------------
(* describe_othd.py run on a file: HashDb is constructed on it, then one of *)
(* the two reports is printed.  The file is any SQLite database: a header   *)
(* table with some rows or none, a files table, indexes on it.              *)

MaxHeaderRows == 2

HeaderRows ==
    {[name |-> TextVal(<<"n">>), description |-> TextVal(<<"d">>),
      uuid |-> BlobVal(uuid_bytes(1))],
     [name |-> TextVal(<<>>), description |-> NullVal,
      uuid |-> BlobVal(uuid_bytes(258))],
     [name |-> TextVal(<<"o">>), description |-> TextVal(<<>>),
      uuid |-> BlobVal(<<1>>)]}

HeaderTables ==
    {NoTable}
    \cup {[exists |-> TRUE, columns |-> HeaderColumns, rows |-> rows] :
             rows \in SeqsUpTo(HeaderRows, MaxHeaderRows)}

FilesTables ==
    {NoTable,
     [exists |-> TRUE,
      columns |-> <<[name |-> "size", type |-> "INT"], [name |-> "sha1", type |-> "BLOB"],
                    [name |-> "md5", type |-> "BLOB"]>>,
      rows |-> <<>>],
     [exists |-> TRUE,
      columns |-> <<[name |-> "sha1", type |-> "BLOB"], [name |-> "md5", type |-> "BLOB"]>>,
      rows |-> <<<<BlobVal(sha1_digest(9)), BlobVal(md5_digest(9))>>>>]}

\* Indexes a database may hold: in canonical order, in another order, with
\* a column twice, over part of the columns, and on another table.
FilesIndexes ==
    {[name |-> "all_index", tbl |-> "files", columns |-> <<"size", "sha1", "md5">>],
     [name |-> "by_md5", tbl |-> "files", columns |-> <<"md5", "sha1">>],
     [name |-> "twice", tbl |-> "files", columns |-> <<"size", "md5", "md5">>],
     [name |-> "sha1_twice", tbl |-> "files", columns |-> <<"sha1", "sha1">>],
     [name |-> "notes_index", tbl |-> "notes", columns |-> <<"size", "sha1", "md5">>]}

\* CREATE INDEX accepts an index on files only over columns files has.
IndexesOn(files) ==
    {ixs \in SUBSET FilesIndexes :
        \A ix \in ixs : ix.tbl = "files" =>
            Range(ix.columns) \subseteq {files.columns[k].name : k \in 1..Len(files.columns)}}

DescribedFiles ==
    UNION {{File([application_id |-> id, user_version |-> version,
                  header |-> header, files |-> files, indexes |-> ixs,
                  others |-> {}]) :
               id \in {APPLICATION_ID, 7}, version \in {DB_VERSION, 2},
               header \in HeaderTables, ixs \in IndexesOn(files)} :
           files \in FilesTables}

InitRead ==
    /\ src = NoSource
    /\ disk \in DescribedFiles
    /\ con = NoCon
    /\ pc = "start"
    /\ pulled = 0
    /\ err = NoErr
    /\ dest0 = disk
    /\ cols_in = [kind |-> "list", items |-> <<>>]
    /\ cols_out = NoCall

\* db = HashDb(args.db_path)
OpenHashDb ==
    /\ pc = "start"
    /\ cols_out' = [fn |-> "HashDb", out |-> HashDb(disk)]
    /\ IF HashDb(disk).ok
       THEN pc' = "opened" /\ err' = err
       ELSE pc' = "failed" /\ err' = [type |-> HashDb(disk).val, at |-> "HashDb"]
    /\ UNCHANGED <<src, disk, con, pulled, cols_in, dest0>>

\* db.print_json()
PrintJson ==
    /\ pc = "opened"
    /\ cols_out' = [fn |-> "print_json", out |-> print_json(cols_out.out.val)]
    /\ pc' = "printed"
    /\ UNCHANGED <<src, disk, con, pulled, err, cols_in, dest0>>

\* db.print_detailed_description()
PrintDetailedDescription ==
    /\ pc = "opened"
    /\ cols_out' = [fn |-> "print_detailed_description",
                    out |-> print_detailed_description(cols_out.out.val)]
    /\ pc' = "printed"
    /\ UNCHANGED <<src, disk, con, pulled, err, cols_in, dest0>>

NextRead ==
    \/ OpenHashDb
    \/ PrintJson
    \/ PrintDetailedDescription

SpecRead == InitRead /\ [][NextRead]_vars

-----------------------------------------------------------------------------
(* Properties *)

\* Position of a column in the canonical order size, sha1, md5.
Rank(c) == CASE c = "size" -> 1 [] c = "sha1" -> 2 [] c = "md5" -> 3 [] OTHER -> 4

\* A column set the specification calls valid.
ValidColumnSet(S) == S # {} /\ S \subseteq {"size", "sha1", "md5"} /\ S # {"size"}

\* A sequence of columns in canonical order, each at most once.
Canonical(cols) ==
    \A i, j \in 1..Len(cols) : i < j => Rank(cols[i]) < Rank(cols[j])

\* What the writer's loop has to work with once the files table exists:
\* the items of the source's generator and the negotiated columns.
Items == file_infos(src)
Negotiated == FilterOrder(<<"size", "sha1", "md5">>, available_columns(src))

\* Item k of items is a record one of whose negotiated columns get_column
\* refuses.
BadRecord(items, k) == items[k].ok /\ ~row_values(src, items[k].val, Negotiated).ok

\* The values item k of items supplies for the negotiated columns, in
\* canonical order.
Supplied(items, k) ==
    [j \in 1..Len(Negotiated) |-> get_column(src, items[k].val, Negotiated[j]).val]

\* C1: once write_to_output_db completes, HashDb opened on the produced
\* file reports has_ideal_index = true.
C1_IdealIndex ==
    pc = "done" => HashDb(disk).ok /\ has_ideal_index(HashDb(disk).val)

C1_Witness ==
    /\ pc = "done"
    /\ get_files_columns(disk.db) = <<"size", "sha1", "md5">>
    /\ Len(disk.db.files.rows) = 2
    /\ has_ideal_index(HashDb(disk).val)

\* C2 (as claimed): a write that fails before its final commit leaves
\* nothing it wrote in the destination: no format marker, header table,
\* header row, files table, row or index persists.
C2_NothingPersists ==
    (pc = "failed" /\ err.at \in {"markers", "header", "files_table", "file_infos",
                                  "fill", "indexes", "commit"})
        => disk.db = dest0.db

\* C3: a record whose get_column fails for a negotiated column ends the
\* write at that record: it is not skipped, nothing after it is pulled from
\* the source, and neither the rows inserted before it nor any index reach
\* the file.
C3_GetColumnAborts ==
    pulled > 0 =>
        LET items == Items IN
        \A k \in 1..pulled :
            BadRecord(items, k) =>
                /\ k = pulled
                /\ pc = "failed"
                /\ err = [type |-> row_values(src, items[k].val, Negotiated).val,
                          at |-> "fill"]
                /\ ~con.open
                /\ disk.db.files = dest0.db.files
                /\ disk.db.indexes = dest0.db.indexes

C3_Witness ==
    /\ pc = "failed"
    /\ pulled = 2
    /\ BadRecord(Items, 2)
    /\ ~BadRecord(Items, 1)
    /\ ~disk.db.files.exists

\* C4 (as claimed): when the source's column set is illegal, the validation
\* error leaves write_to_output_db before any I/O: the destination is as it
\* was when the run began (not created, no marker, no header table or row).
C4_ValidationBeforeIO ==
    (pc = "failed" /\ src # NoSource /\ ~ValidColumnSet(available_columns(src))
        /\ err = [type |-> "ValueError", at |-> "files_table"])
        => disk = dest0

\* C5 (as claimed): when the destination path already exists the writer
\* fails and leaves the existing file unchanged.
C5_NoOverwrite ==
    dest0.exists => (pc # "done" /\ disk = dest0)

\* C6: after a successful write the files table is the record stream: one
\* row per record, in source order, each the record's values for the
\* negotiated columns in canonical order; equal records stay separate rows.
C6_RowsAreTheStream ==
    pc = "done" =>
        LET items == Items IN
        /\ Len(disk.db.files.rows) = Len(items)
        /\ \A k \in 1..Len(items) : disk.db.files.rows[k] = Supplied(items, k)

C6_Witness ==
    /\ pc = "done"
    /\ Len(disk.db.files.rows) = 2
    /\ disk.db.files.rows[1] = disk.db.files.rows[2]
    /\ disk.db.files.rows = <<Supplied(Items, 1), Supplied(Items, 2)>>

\* C7: write then read is a round trip: HashDb reports the number of
\* records, the negotiated columns in canonical order, the source's name,
\* description and uuid, the correct application id and version 1, and
\* every stored hash is the bytes the record supplied.
C7_RoundTrip ==
    pc = "done" =>
        LET h == HashDb(disk)
            items == Items
        IN
        /\ h.ok
        /\ h.val.files_count = Len(items)
        /\ h.val.files_columns = Negotiated
        /\ h.val.name = src.base.name
        /\ h.val.description = src.base.description
        /\ h.val.uuid = src.base.uuid
        /\ application_id_is_correct(h.val)
        /\ h.val.db_version = 1
        /\ \A k \in 1..Len(items) : \A j \in 1..Len(Negotiated) :
               Negotiated[j] \in {"sha1", "md5"} =>
                   /\ disk.db.files.rows[k][j].t = "blob"
                   /\ disk.db.files.rows[k][j].b = Supplied(items, k)[j].b

C7_Witness ==
    /\ pc = "done"
    /\ src.base.name = <<"n">>
    /\ src.base.description = <<"d">>
    /\ src.base.uuid = 258
    /\ HashDb(disk).val.files_count = 2
    /\ HashDb(disk).val.files_columns = <<"md5">>
    /\ HashDb(disk).val.name = <<"n">>
    /\ disk.db.files.rows[2][1].b = Rep(187, 16)

\* C8: for a valid column set given in any order, ordered_column_subset
\* returns exactly its columns, each once, in the order size, sha1, md5.
C8_OrderedSubset ==
    (cols_out.fn = "ordered_column_subset" /\ ValidColumnSet(Range(cols_in.items)))
        => /\ cols_out.out.ok
           /\ Range(cols_out.out.val) = Range(cols_in.items)
           /\ Canonical(cols_out.out.val)

C8_Witness ==
    /\ cols_out.fn = "ordered_column_subset"
    /\ cols_in = [kind |-> "list", items |-> <<"md5", "sha1", "size">>]
    /\ cols_out.out = Ok(<<"size", "sha1", "md5">>)

\* C9 (as claimed): validate_column_list fails exactly when the column set
\* is empty, is {size}, or holds a column outside {size, sha1, md5},
\* whether it is given a set or a list, repeated columns included.
C9_ValidateExact ==
    cols_out.fn = "validate_column_list"
        => (cols_out.out.ok <=> ValidColumnSet(Range(cols_in.items)))

\* C10: in every file a completed write produces, the files table's columns
\* are a non-empty subset of {size, sha1, md5}, not {size} alone, stored in
\* canonical order.
C10_StoredColumnsValid ==
    pc = "done" =>
        /\ ValidColumnSet(Range(get_files_columns(disk.db)))
        /\ Canonical(get_files_columns(disk.db))

C10_Witness ==
    /\ pc = "done"
    /\ src.kind = "csv"
    /\ get_files_columns(disk.db) = <<"sha1", "md5">>
    /\ Len(disk.db.files.rows) = 1

\* The record and the column of a get_column call, and what it returned.
Asked == cols_in.items[1]
Returned == cols_out.out

\* C11 (as claimed): every value a record returns for md5 is a blob of
\* exactly 16 bytes and every value it returns for sha1 is a blob of exactly
\* 20 bytes, whatever the source.
C11_DigestLengths ==
    (cols_out.fn = "get_column" /\ Returned.ok /\ Asked \in {"md5", "sha1"})
        => /\ Returned.val.t = "blob"
           /\ Len(Returned.val.b) = IF Asked = "md5" THEN 16 ELSE 20

\* C12 (as claimed): get_column(c) on a record of any source fails whenever
\* c is not one of the source's available_columns: no record returns a
\* value for a column its source does not advertise.
C12_UnadvertisedColumnFails ==
    (cols_out.fn = "get_column" /\ Asked \notin available_columns(src))
        => ~Returned.ok

\* The line of a hash list the record of the call was made from, without
\* its line terminator, and the bytes its characters encode pair by pair.
LineAsked ==
    LET line == src.lines[pulled] IN
    IF line # <<>> /\ line[Len(line)] = NL THEN SubSeq(line, 1, Len(line) - 1)
    ELSE line
Encoded(text) ==
    [i \in 1..(Len(text) \div 2) |-> 16 * HexVal(text[2 * i - 1]) + HexVal(text[2 * i])]

\* C13 (as claimed): on a hash list declared md5 (sha1), get_column of the
\* declared column succeeds exactly when the line is 32 (40) hex characters
\* and nothing else, then returns the 16 (20) bytes they encode, and raises
\* a ValueError otherwise.
C13_HashListExact ==
    (cols_out.fn = "get_column" /\ src.kind = "hashlist"
        /\ src.column \in {"md5", "sha1"} /\ Asked = src.column)
        => LET n == IF Asked = "md5" THEN 32 ELSE 40
               wellformed == /\ Len(LineAsked) = n
                             /\ \A i \in 1..Len(LineAsked) : IsHex(LineAsked[i])
           IN  IF wellformed
               THEN Returned.ok /\ Returned.val = BlobVal(Encoded(LineAsked))
               ELSE ~Returned.ok /\ Returned.val = "ValueError"

\* The data lines of a reference text, in input order, and the text of a
\* data line between its header and its line terminator.
IsDataLine(line) ==
    /\ Len(line) >= Len(DATA_LINE_HEADER)
    /\ SubSeq(line, 1, Len(DATA_LINE_HEADER)) = DATA_LINE_HEADER
DataLines(lines) == SelectSeq(lines, IsDataLine)
Meat(line) == SubSeq(line, Len(DATA_LINE_HEADER) + 1, Len(line) - 1)

\* C14 (as claimed): with no allow-list configured, the records a
\* reference-text source yields are, in input order, all of its data lines,
\* whatever the category field of a line holds and whether or not the line
\* has one.
C14_CategoryFilter ==
    (cols_out.fn = "file_infos" /\ src.kind = "caid" /\ src.desired_categories.none)
        => /\ Len(Returned) = Len(DataLines(src.lines))
           /\ \A k \in 1..Len(Returned) : Returned[k].ok
           /\ \A k \in 1..Len(Returned) :
                  Returned[k].val = Caid_FileInfo(Meat(DataLines(src.lines)[k])).val

\* The rows of a delimited text that are not directories, in input order.
FileRows(rows) == SelectSeq(rows, LAMBDA row : row.Type # DirectoryText)

\* C15: a delimited-text source yields no record for a row whose Type is
\* "Directory" and one record, in input order, for every other row; its
\* available_columns are those of the first row that is not a directory.
C15_DirectoriesExcluded ==
    (cols_out.fn = "file_infos" /\ src.kind = "csv")
        => /\ Len(Returned) = Len(FileRows(src.rows))
           /\ \A k \in 1..Len(Returned) :
                  /\ Returned[k].ok
                  /\ Returned[k].val = Csv_FileInfo(FileRows(src.rows)[k])
           /\ FileRows(src.rows) # <<>>
           /\ available_columns(src) = Csv_columns(Csv_FileInfo(FileRows(src.rows)[1]))

C15_Witness ==
    /\ cols_out.fn = "file_infos"
    /\ src.kind = "csv"
    /\ src.rows = <<CsvRow(DirectoryText, <<"1">>, <<>>, <<>>),
                    CsvRow(FileText, <<>>, <<>>, HexB32)>>
    /\ Len(Returned) = 1
    /\ Returned[1].val.md5 = HexB32
    /\ available_columns(src) = {"md5"}

\* The names of the columns of the files table of the file described.
StoredColumns == {disk.db.files.columns[k].name : k \in 1..Len(disk.db.files.columns)}

\* An index on files that covers every stored column, with size as its
\* first key when size is stored.
Ideal(ix) ==
    /\ ix.tbl = "files"
    /\ StoredColumns \subseteq Range(ix.columns)
    /\ "size" \in StoredColumns => ix.columns[1] = "size"

\* C16 (as claimed): has_ideal_index is true if and only if some index on
\* the files table covers every column of the table and, when size is one
\* of them, has size as its first key.
C16_IdealIffCovers ==
    (cols_out.fn = "HashDb" /\ Returned.ok)
        => (has_ideal_index(Returned.val) <=> \E ix \in disk.db.indexes : Ideal(ix))

\* C17: HashDb reports the name, description and id of the header row
\* inserted last, however many header rows there are.
C17_LastHeaderRow ==
    (cols_out.fn = "HashDb" /\ Returned.ok)
        => LET last == disk.db.header.rows[Len(disk.db.header.rows)] IN
           /\ Returned.val.name = FromSql(last.name)
           /\ Returned.val.description = FromSql(last.description)
           /\ Returned.val.uuid = from_bytes(last.uuid.b)

C17_Witness ==
    /\ cols_out.fn = "HashDb"
    /\ Returned.ok
    /\ Len(disk.db.header.rows) = 2
    /\ disk.db.header.rows[1].name = TextVal(<<"n">>)
    /\ Returned.val.name = <<>>
    /\ Returned.val.description = None
    /\ Returned.val.uuid = 258

\* The fields a printed output reports.
Keys(lines) == {lines[k].key : k \in 1..Len(lines)}

\* C18 (as claimed): the machine-readable output reports the fields of the
\* human-readable report, name and description left out when empty.
C18_JsonSameFields ==
    cols_out.fn = "print_json"
        => LET self == HashDb(disk).val IN
           Keys(Returned) =
               Keys(print_detailed_description(self))
                   \ ({k \in {"name"} : ~Truthy(self.name)}
                      \cup {k \in {"description"} : ~Truthy(self.description)})

\* The field of a row of a delimited text that holds a column, and whether
\* the row has no value for one of the negotiated columns.
FieldOf(row, c) ==
    CASE c = "size" -> row.Filesize [] c = "sha1" -> row.SHA1Hash [] c = "md5" -> row.MD5Hash
LacksValue(row) ==
    \E j \in 1..Len(Negotiated) : FieldOf(row, Negotiated[j]) \in {<<>>, None, Absent}

\* The rows inserted into the files table by the run so far.
Inserted ==
    IF pc \in {"fill", "indexes", "commit"} THEN con.db.files.rows
    ELSE IF pc = "done" THEN disk.db.files.rows
    ELSE <<>>

\* C19: for a delimited-text source, available_columns stays what the first
\* accepted row gave; a later accepted row without a value for one of those
\* columns ends the write with an error at that row; every inserted row
\* holds a value, never NULL or empty, for exactly the negotiated columns,
\* whatever other fields its row of the text has.
C19_CsvColumnsFixed ==
    src.kind = "csv"
        => LET rows == FileRows(src.rows) IN
           /\ available_columns(src) = Csv_columns(Csv_FileInfo(rows[1]))
           /\ \A k \in 1..pulled :
                  LacksValue(rows[k]) => (k = pulled /\ pc = "failed" /\ err.at = "fill")
           /\ \A k \in 1..Len(Inserted) :
                  /\ Len(Inserted[k]) = Len(Negotiated)
                  /\ \A j \in 1..Len(Negotiated) :
                         /\ Inserted[k][j].t # "null"
                         /\ Inserted[k][j].t = "blob" => Inserted[k][j].b # <<>>
                         /\ Inserted[k][j] = get_column(src, Csv_FileInfo(rows[k]), Negotiated[j]).val

C19_Witness ==
    /\ src.kind = "csv"
    /\ src.rows = <<CsvRow(Absent, Absent, HexA40, HexA32),
                    CsvRow(FileText, <<"2">>, HexB40, None)>>
    /\ available_columns(src) = {"sha1", "md5"}
    /\ pulled = 2
    /\ pc = "failed"
    /\ err = [type |-> "TypeError", at |-> "fill"]
    /\ disk.db.files.rows = <<>>

=============================================================================
